---- MODULE Spec2Model ----
(***************************************************************************)
(* VIKOR compromise ranking (src/topsisx/vikor.py), modelled as a state    *)
(* machine: a caller holds an input (table, weights, impacts, v), the call *)
(* vikor(...) runs, and the caller holds the returned table and attrs.     *)
(*                                                                         *)
(* Numbers.  The source computes in floating point; the model computes in  *)
(* exact rational arithmetic on 32-bit integers.  Table values are small   *)
(* naturals, a weight is weights[j] / MaxWeight, v is v / VDen, and the    *)
(* source's constant 1e-10 is the rational 1 / EpsInv.  S and R are kept   *)
(* as numerators over one common denominator; Q, a sum of two quotients    *)
(* with different denominators, is kept as its two terms and compared by   *)
(* exact fraction comparison.  Row labels are 1..m (pandas: 0..m-1), the   *)
(* labels of a list, an array or a freshly built DataFrame.                *)
(*                                                                         *)
(* The weight derivers, TOPSIS and DecisionPipeline are modelled from the  *)
(* package's specification (spec.md, sections 4.1 to 4.5 and 7) and from   *)
(* the way the tests and the demo call them.  TOPSIS distances are kept    *)
(* squared, so that closeness coefficients compare without square roots.   *)
(***************************************************************************)
EXTENDS Integers, Sequences, FiniteSets, TLC

\* Bounds of the explored inputs.
MaxM == 3
MaxN == 2
MaxVal == 2
MaxWeight == 2
VDen == 2
WideM == 4
WideVal == 3

\* The source's 1e-10 is modelled as 1 / EpsInv.
EpsInv == 100

VARIABLES pc, data, weights, impacts, v, verbose, result, attrs, error, printed,
          config, pairwise_matrix, comparison

vars == <<pc, data, weights, impacts, v, verbose, result, attrs, error, printed,
          config, pairwise_matrix, comparison>>

---------------------------------------------------------------------------
\* Exact arithmetic helpers.

Abs(x) == IF x < 0 THEN -x ELSE x

Sgn(x) == IF x < 0 THEN -1 ELSE IF x > 0 THEN 1 ELSE 0

\* The sequence f[1], ..., f[n], every element computed once.
Table(f, n) == SubSeq(f, 1, n)

RECURSIVE SumTo(_, _)
SumTo(f, k) == IF k = 0 THEN 0 ELSE f[k] + SumTo(f, k - 1)

RECURSIVE ProdTo(_, _)
ProdTo(f, k) == IF k = 0 THEN 1 ELSE f[k] * ProdTo(f, k - 1)

RECURSIVE MaxTo(_, _)
MaxTo(f, k) ==
    IF k = 1 THEN f[1]
    ELSE LET r == MaxTo(f, k - 1) IN IF f[k] > r THEN f[k] ELSE r

RECURSIVE MinTo(_, _)
MinTo(f, k) ==
    IF k = 1 THEN f[1]
    ELSE LET r == MinTo(f, k - 1) IN IF f[k] < r THEN f[k] ELSE r

\* p/q < r/s for q > 0 and s > 0, without forming the cross products
\* (continued-fraction comparison; \div is floor division).
RECURSIVE FracLess(_, _, _, _)
FracLess(p, q, r, s) ==
    LET a == p \div q
        b == r \div s
        p1 == p % q
        r1 == r % s
    IN  IF a # b THEN a < b
        ELSE IF r1 = 0 THEN FALSE
        ELSE IF p1 = 0 THEN TRUE
        ELSE FracLess(s, r1, q, p1)

---------------------------------------------------------------------------
\* vikor, lines 34-85: validation results, ideal points, S, R and Q.

NumRows(mat) == Len(mat)

NumCols(mat) == Len(mat[1])

Column(mat, j) == Table([i \in 1..NumRows(mat) |-> mat[i][j]], NumRows(mat))

\* weights = weights / weights.sum() unless the sum is already 1: the
\* denominator of the weights used below (their numerators stay weights[j]).
WeightDen(w) ==
    LET total == SumTo(w, Len(w))
    IN  IF total # MaxWeight THEN total ELSE MaxWeight

ideal(mat, imp) ==
    Table([j \in 1..NumCols(mat) |->
            IF imp[j] = "+" THEN MaxTo(Column(mat, j), NumRows(mat))
                            ELSE MinTo(Column(mat, j), NumRows(mat))],
          NumCols(mat))

anti_ideal(mat, imp) ==
    Table([j \in 1..NumCols(mat) |->
            IF imp[j] = "+" THEN MinTo(Column(mat, j), NumRows(mat))
                            ELSE MaxTo(Column(mat, j), NumRows(mat))],
          NumCols(mat))

\* (ideal - anti_ideal + 1e-10), times EpsInv; negative for a cost criterion
\* whose values differ.
RangeDen(id, ai) == Table([j \in 1..Len(id) |-> (id[j] - ai[j]) * EpsInv + 1], Len(id))

\* The product of the magnitudes of the range denominators.
RangeProd(rd) == ProdTo(Table([j \in 1..Len(rd) |-> Abs(rd[j])], Len(rd)), Len(rd))

\* The denominator every S(i) and R(i) numerator is taken over.
CommonDen(mat, w, imp) ==
    WeightDen(w) * RangeProd(RangeDen(ideal(mat, imp), anti_ideal(mat, imp)))

\* The 1e-10 added to the numerator as well as to the denominator.
weighted_distances_EpsInNumerator(mrow, w, id, rd, prod) ==
    Table([j \in 1..Len(mrow) |->
            w[j] * Sgn(rd[j]) * ((id[j] - mrow[j]) * EpsInv + 1) * (prod \div Abs(rd[j]))],
          Len(mrow))

\* weights * (ideal - matrix[i, :]) / (ideal - anti_ideal + 1e-10) for row
\* mrow, as numerators over CommonDen.
weighted_distances(mrow, w, id, rd, prod) ==
    Table([j \in 1..Len(mrow) |->
            w[j] * Sgn(rd[j]) * (id[j] - mrow[j]) * EpsInv * (prod \div Abs(rd[j]))],
          Len(mrow))

\* The rows of weighted distances the loop over the alternatives computes.
Distances(mat, w, imp) ==
    LET id == ideal(mat, imp)
        rd == RangeDen(id, anti_ideal(mat, imp))
        prod == RangeProd(rd)
    IN  Table([i \in 1..NumRows(mat) |-> weighted_distances(mat[i], w, id, rd, prod)],
              NumRows(mat))

\* S[i] = np.sum(weighted_distances)
S(wd) == Table([i \in 1..Len(wd) |-> SumTo(wd[i], Len(wd[i]))], Len(wd))

\* R[i] = np.max(weighted_distances)
R(wd) == Table([i \in 1..Len(wd) |-> MaxTo(wd[i], Len(wd[i]))], Len(wd))

\* Q = v * (S - S_star) / (S_minus - S_star + 1e-10)
\*     + (1 - v) * (R - R_star) / (R_minus - R_star + 1e-10).
\* Q[i] is the record of its two terms: Q(i) = (sn / sd + rn / rd) / VDen.
Q(Sv, Rv, cden, vn) ==
    LET m == Len(Sv)
        S_star == MinTo(Sv, m)
        S_minus == MaxTo(Sv, m)
        R_star == MinTo(Rv, m)
        R_minus == MaxTo(Rv, m)
    IN  Table([i \in 1..m |->
                [sn |-> vn * (Sv[i] - S_star) * EpsInv,
                 sd |-> (S_minus - S_star) * EpsInv + cden,
                 rn |-> (VDen - vn) * (Rv[i] - R_star) * EpsInv,
                 rd |-> (R_minus - R_star) * EpsInv + cden]], m)

\* Q(a) - Q(b) < cn / cd, for cd > 0.
QDiffLess(qa, qb, cn, cd) ==
    FracLess(qa.sn - qb.sn, VDen * qa.sd,
             cn * VDen * qa.rd - cd * (qa.rn - qb.rn), cd * VDen * qa.rd)

QLess(qa, qb) == QDiffLess(qa, qb, 0, 1)

---------------------------------------------------------------------------
\* vikor, lines 93-106: ranks and the sort by Q_Rank.

\* less[a][b] is "value a is strictly smaller than value b".
IntLess(X) ==
    Table([a \in 1..Len(X) |-> Table([b \in 1..Len(X) |-> X[a] < X[b]], Len(X))],
          Len(X))

QLessTable(Qv) ==
    Table([a \in 1..Len(Qv) |->
            Table([b \in 1..Len(Qv) |-> QLess(Qv[a], Qv[b])], Len(Qv))], Len(Qv))

\* Stable ascending argsort of the rows 1..k (insertion sort).
RECURSIVE InsertInto(_, _, _)
InsertInto(sorted, x, less) ==
    IF sorted = <<>> THEN <<x>>
    ELSE LET last == sorted[Len(sorted)]
         IN  IF less[x][last]
             THEN Append(InsertInto(SubSeq(sorted, 1, Len(sorted) - 1), x, less), last)
             ELSE Append(sorted, x)

RECURSIVE ArgSort(_, _)
ArgSort(less, k) ==
    IF k = 0 THEN <<>> ELSE InsertInto(ArgSort(less, k - 1), k, less)

\* First position of the run of equal values that sorted position p lies in.
RECURSIVE TieStart(_, _, _)
TieStart(order, less, p) ==
    IF p > 1 /\ ~less[order[p - 1]][order[p]]
    THEN TieStart(order, less, p - 1)
    ELSE p

\* Series.rank with method='first': ties ranked in table order.
rank_first(less) ==
    LET m == Len(less)
        order == ArgSort(less, m)
    IN  Table([i \in 1..m |-> CHOOSE p \in 1..m : order[p] = i], m)

\* Series.rank with method='dense': the next distinct value gets the next
\* ordinal.
rank_dense(less) ==
    LET m == Len(less)
        order == ArgSort(less, m)
    IN  Table([i \in 1..m |->
                Cardinality({TieStart(order, less, q) :
                                q \in 1..(CHOOSE p \in 1..m : order[p] = i)})], m)

\* Series.rank(ascending=True, method='min'): every member of a run of ties
\* gets the first position of the run.
rank(less) ==
    LET m == Len(less)
        order == ArgSort(less, m)
    IN  Table([i \in 1..m |->
                TieStart(order, less, CHOOSE p \in 1..m : order[p] = i)], m)

\* result.sort_values('Q_Rank'): the row orders a sort that is not stable may
\* produce, rows of equal Q_Rank in any order.
RECURSIVE SortOrders(_, _)
SortOrders(key, rows) ==
    IF rows = {} THEN {<<>>}
    ELSE LET least == {x \in rows : \A y \in rows : key[x] <= key[y]}
         IN  UNION {{<<x>> \o o : o \in SortOrders(key, rows \ {x})} : x \in least}

sort_values(key) == SortOrders(key, 1..Len(key))

\* result[result[col] == 1].index[0]: the first row, in table order, whose
\* rank is 1.
FirstRankOne(rk) ==
    CHOOSE i \in 1..Len(rk) : rk[i] = 1 /\ \A k \in 1..i - 1 : rk[k] # 1

---------------------------------------------------------------------------
\* vikor, lines 87-156: the annotated table and its metadata.

\* The columns S, R, Q, Q_Rank, S_Rank, R_Rank computed from the input.
Scores(mat, w, imp, vn) ==
    LET wd == Distances(mat, w, imp)
        Sv == S(wd)
        Rv == R(wd)
        Qv == Q(Sv, Rv, CommonDen(mat, w, imp), vn)
    IN  [S |-> Sv, R |-> Rv, Q |-> Qv,
         Q_Rank |-> rank(QLessTable(Qv)),
         S_Rank |-> rank(IntLess(Sv)),
         R_Rank |-> rank(IntLess(Rv))]

\* DQ taken as 1 / m.
DQ_OverM(m) == [num |-> 1, den |-> m]

\* DQ = 1.0 / (m - 1) if m > 1 else 1.0, as numerator and denominator.
DQ(m) == [num |-> 1, den |-> IF m > 1 THEN m - 1 ELSE 1]

\* Q_diff taken from the first two rows of the table as given, not as sorted.
C1_satisfied_Unsorted(sc, order) ==
    LET m == Len(order)
    IN  IF m > 1
        THEN ~QDiffLess(sc.Q[2], sc.Q[1], DQ(m).num, DQ(m).den)
        ELSE TRUE

\* C1 found not satisfied when there is no second alternative.
C1_satisfied_SingletonFalse(sc, order) ==
    LET m == Len(order)
    IN  IF m > 1
        THEN ~QDiffLess(sc.Q[order[2]], sc.Q[order[1]], DQ(m).num, DQ(m).den)
        ELSE FALSE

\* Q_diff >= DQ for the first two rows of the sorted table; True when m = 1.
C1_satisfied(sc, order) ==
    LET m == Len(order)
    IN  IF m > 1
        THEN ~QDiffLess(sc.Q[order[2]], sc.Q[order[1]], DQ(m).num, DQ(m).den)
        ELSE TRUE

best_Q_idx(order) == order[1]

best_S_idx(sc) == FirstRankOne(sc.S_Rank)

best_R_idx(sc) == FirstRankOne(sc.R_Rank)

C2_satisfied(sc, order) ==
    \/ best_Q_idx(order) = best_S_idx(sc)
    \/ best_Q_idx(order) = best_R_idx(sc)

\* The band measured from Q_sorted[1], the second row, instead of Q_sorted[0].
WithinDQ_FromSecond(sc, order, idx) ==
    QDiffLess(sc.Q[idx], sc.Q[order[2]], DQ(Len(order)).num, DQ(Len(order)).den)

\* The rows of the sorted table whose Q is within DQ of Q_sorted[0].
WithinDQ(sc, order, idx) ==
    QDiffLess(sc.Q[idx], sc.Q[order[1]], DQ(Len(order)).num, DQ(Len(order)).den)

\* for idx in seq: if idx not in compromise_set: compromise_set.append(idx)
RECURSIVE AppendNew(_, _)
AppendNew(acc, seq) ==
    IF seq = <<>> THEN acc
    ELSE LET idx == Head(seq)
         IN  IF \E p \in 1..Len(acc) : acc[p] = idx
             THEN AppendNew(acc, Tail(seq))
             ELSE AppendNew(Append(acc, idx), Tail(seq))

\* The single-solution branch flagging the best by S and by R as well.
FlaggedRows_AlwaysUnion(sc, order) ==
    IF ~C1_satisfied(sc, order)
    THEN {order[p] : p \in {k \in 1..Len(order) : WithinDQ(sc, order, order[k])}}
    ELSE {best_Q_idx(order), best_S_idx(sc), best_R_idx(sc)}

\* The C2 branch leaving out the best by R.
FlaggedRows_WithoutR(sc, order) ==
    IF C1_satisfied(sc, order) /\ C2_satisfied(sc, order)
    THEN {best_Q_idx(order)}
    ELSE IF ~C1_satisfied(sc, order)
    THEN {order[p] : p \in {k \in 1..Len(order) : WithinDQ(sc, order, order[k])}}
    ELSE {best_Q_idx(order), best_S_idx(sc)}

\* The C1 branch starting its loop at the second row of the sorted table.
FlaggedRows_FromSecondRow(sc, order) ==
    IF C1_satisfied(sc, order) /\ C2_satisfied(sc, order)
    THEN {best_Q_idx(order)}
    ELSE IF ~C1_satisfied(sc, order)
    THEN {order[p] : p \in {k \in 2..Len(order) : WithinDQ(sc, order, order[k])}}
    ELSE {best_Q_idx(order), best_S_idx(sc), best_R_idx(sc)}

\* The rows result.loc[idx, 'Is_Compromise'] = True is executed for.
FlaggedRows(sc, order) ==
    IF C1_satisfied(sc, order) /\ C2_satisfied(sc, order)
    THEN {best_Q_idx(order)}
    ELSE IF ~C1_satisfied(sc, order)
    THEN {order[p] : p \in {k \in 1..Len(order) : WithinDQ(sc, order, order[k])}}
    ELSE {best_Q_idx(order), best_S_idx(sc), best_R_idx(sc)}

\* The C1 branch appending every row of the sorted table, flagged or not.
compromise_set_Unfiltered(sc, order) ==
    IF C1_satisfied(sc, order) /\ C2_satisfied(sc, order)
    THEN <<best_Q_idx(order)>>
    ELSE IF ~C1_satisfied(sc, order)
    THEN order
    ELSE AppendNew(<<>>, <<best_Q_idx(order), best_S_idx(sc), best_R_idx(sc)>>)

\* compromise_set, in the order the branches append to it.
compromise_set(sc, order) ==
    IF C1_satisfied(sc, order) /\ C2_satisfied(sc, order)
    THEN <<best_Q_idx(order)>>
    ELSE IF ~C1_satisfied(sc, order)
    THEN LET Within(idx) == WithinDQ(sc, order, idx)
         IN  SelectSeq(order, Within)
    ELSE AppendNew(<<>>, <<best_Q_idx(order), best_S_idx(sc), best_R_idx(sc)>>)

\* The narrative classification; count holds the number the text states.
compromise_status(sc, order) ==
    IF C1_satisfied(sc, order) /\ C2_satisfied(sc, order)
    THEN [text |-> "Single compromise solution (C1 and C2 satisfied)",
          count |-> <<>>]
    ELSE IF ~C1_satisfied(sc, order)
    THEN [text |-> "Multiple compromise solutions (C1 not satisfied)",
          count |-> <<Len(compromise_set(sc, order))>>]
    ELSE [text |-> "Compromise set (C2 not satisfied)",
          count |-> <<Len(compromise_set(sc, order))>>]

\* The table vikor builds: the rows of df with their labels, in df's order,
\* and the added columns.
ResultTable(df, sc, order) ==
    LET flagged == FlaggedRows(sc, order)
    IN  Table([i \in 1..Len(df) |->
                [label |-> i, row |-> df[i],
                 S |-> sc.S[i], R |-> sc.R[i], Q |-> sc.Q[i],
                 Q_Rank |-> sc.Q_Rank[i], S_Rank |-> sc.S_Rank[i],
                 R_Rank |-> sc.R_Rank[i], Rank |-> sc.Q_Rank[i],
                 Is_Compromise |-> i \in flagged]], Len(df))

\* sorted_result: the rows of the table in the sorted order.
sorted_result(table, order) ==
    Table([p \in 1..Len(order) |-> table[order[p]]], Len(order))

\* Returning sorted_result in place of result.
Returned_Sorted(table, order) == sorted_result(table, order)

\* What vikor returns: result, in the original order.
Returned(table, order) == table

ResultAttrs(sc, order) ==
    [C1_satisfied |-> C1_satisfied(sc, order),
     C2_satisfied |-> C2_satisfied(sc, order),
     DQ |-> DQ(Len(order)),
     compromise_status |-> compromise_status(sc, order),
     compromise_set |-> compromise_set(sc, order)]

---------------------------------------------------------------------------
\* Input validation and the call as a whole.

NoError == [type |-> "", about |-> ""]

\* The attrs of a table that was never returned.
NoAttrs == [C1_satisfied |-> FALSE, C2_satisfied |-> FALSE,
            DQ |-> [num |-> 0, den |-> 1],
            compromise_status |-> [text |-> "", count |-> <<>>],
            compromise_set |-> <<>>]

\* The impact symbols checked before the two lengths.
Validate_SymbolsFirst(df, w, imp) ==
    IF \E j \in 1..Len(imp) : imp[j] \notin {"+", "-"}
    THEN [type |-> "ValueError", about |-> "Impacts must be '+' or '-' only"]
    ELSE IF Len(w) # NumCols(df)
    THEN [type |-> "ValueError", about |-> "Number of weights"]
    ELSE IF Len(imp) # NumCols(df)
    THEN [type |-> "ValueError", about |-> "Number of impacts"]
    ELSE NoError

\* The checks made before anything is computed, in the source's order; every
\* failure is a ValueError, told apart by its message.
Validate(df, w, imp) ==
    IF Len(w) # NumCols(df)
    THEN [type |-> "ValueError", about |-> "Number of weights"]
    ELSE IF Len(imp) # NumCols(df)
    THEN [type |-> "ValueError", about |-> "Number of impacts"]
    ELSE IF \E j \in 1..Len(imp) : imp[j] \notin {"+", "-"}
    THEN [type |-> "ValueError", about |-> "Impacts must be '+' or '-' only"]
    ELSE NoError

\* The lines of the verbose block that show computed values: C1, DQ, C2, the
\* three best alternatives as label + 1 (the model's labels), the status and
\* the compromise set.
VerboseLines(sc, order) ==
    <<C1_satisfied(sc, order), DQ(Len(order)), C2_satisfied(sc, order),
      best_Q_idx(order), best_S_idx(sc), best_R_idx(sc),
      compromise_status(sc, order), compromise_set(sc, order)>>

\* A verbose call returning the table it printed from, the sorted one.
Outcome_VerboseSorted(df, sc, order, verb) ==
    [result |-> IF verb THEN sorted_result(ResultTable(df, sc, order), order)
                ELSE Returned(ResultTable(df, sc, order), order),
     attrs |-> ResultAttrs(sc, order),
     error |-> NoError,
     printed |-> IF verb THEN VerboseLines(sc, order) ELSE <<>>]

\* What a call that passed validation leaves behind.
Outcome(df, sc, order, verb) ==
    [result |-> Returned(ResultTable(df, sc, order), order),
     attrs |-> ResultAttrs(sc, order),
     error |-> NoError,
     printed |-> IF verb THEN VerboseLines(sc, order) ELSE <<>>]

\* The outcomes vikor(df, w, imp, vn, verb) can have: one per order the sort
\* may produce, or the one error.
vikor(df, w, imp, vn, verb) ==
    IF Validate(df, w, imp) # NoError
    THEN {[result |-> <<>>, attrs |-> NoAttrs,
           error |-> Validate(df, w, imp), printed |-> <<>>]}
    ELSE UNION {{Outcome(df, sc, order, verb) : order \in sort_values(sc.Q_Rank)} :
                    sc \in {Scores(df, w, imp, vn)}}

---------------------------------------------------------------------------
\* The weight derivers.  A derived weight vector is the sequence of its
\* numerators over their sum, the form vikor's own normalisation gives to
\* the weights it is called with.

RECURSIVE GCD(_, _)
GCD(a, b) == IF b = 0 THEN a ELSE GCD(b, a % b)

\* Positive rationals [num, den] in lowest terms.
Reduce(q) ==
    LET g == GCD(q.num, q.den)
    IN  [num |-> q.num \div g, den |-> q.den \div g]

RAdd(a, b) == Reduce([num |-> a.num * b.den + b.num * a.den, den |-> a.den * b.den])

RDiv(a, b) == Reduce([num |-> a.num * b.den, den |-> a.den * b.num])

RECURSIVE RSumTo(_, _)
RSumTo(f, k) ==
    IF k = 0 THEN [num |-> 0, den |-> 1] ELSE RAdd(f[k], RSumTo(f, k - 1))

RECURSIVE LCMTo(_, _)
LCMTo(f, k) ==
    IF k = 0 THEN 1
    ELSE LET l == LCMTo(f, k - 1) IN (l * f[k].den) \div GCD(l, f[k].den)

\* Equal: weight 1 / n for every criterion.
equal_weights(n) == Table([j \in 1..n |-> 1], n)

\* Entropy: the diversification degrees 1 - E_j are quotients of logarithms,
\* which exact arithmetic does not hold; any non-negative vector stands for
\* them, with weight 0 for a criterion whose values are all the same
\* whenever some criterion is not of that kind.
entropy_weights(df) ==
    LET n == NumCols(df)
        constant(j) == \A i \in 1..NumRows(df) : df[i][j] = df[1][j]
        free == {w \in [1..n -> 0..MaxWeight] : SumTo(w, n) > 0}
        zeroed == {w \in free : \A j \in 1..n : constant(j) => w[j] = 0}
    IN  IF zeroed = {} THEN free ELSE zeroed

\* MalformedPairwiseMatrix: not square, or an entry that is not positive.
Malformed(pm) ==
    \/ \E j \in 1..Len(pm) : Len(pm[j]) # Len(pm)
    \/ \E j \in 1..Len(pm) : \E k \in 1..Len(pm[j]) : pm[j][k].num <= 0

\* AHP: every column divided by its sum, the rows averaged, the averages
\* normalised to sum to 1.  Cells are ratios [num, den] ("1/3" is 1 over 3).
ahp(pm) ==
    LET n == Len(pm)
        colsum == Table([k \in 1..n |-> RSumTo(Column(pm, k), n)], n)
        norm == Table([j \in 1..n |->
                    Table([k \in 1..n |-> RDiv(pm[j][k], colsum[k])], n)], n)
        mean == Table([j \in 1..n |->
                    RDiv(RSumTo(norm[j], n), [num |-> n, den |-> 1])], n)
        total == RSumTo(mean, n)
        w == Table([j \in 1..n |-> RDiv(mean[j], total)], n)
        l == LCMTo(w, n)
    IN  Table([j \in 1..n |-> w[j].num * (l \div w[j].den)], n)

---------------------------------------------------------------------------
\* TOPSIS.  The weighted normalised value of x[i][j] is
\* w[j] * x[i][j] / sqrt(sum of squares of column j); squared distances are
\* numerators over the product of the columns' sums of squares.

\* The squared Euclidean norm of column j; 1 for a column of zeros, which
\* normalisation leaves as it is.
NormSq(mat, j) ==
    LET col == Column(mat, j)
        total == SumTo(Table([i \in 1..Len(col) |-> col[i] * col[i]], Len(col)), Len(col))
    IN  IF total = 0 THEN 1 ELSE total

SquaredDistance(mrow, w, target, nsq, prod) ==
    SumTo(Table([j \in 1..Len(mrow) |->
                    w[j] * w[j] * (mrow[j] - target[j]) * (mrow[j] - target[j])
                        * (prod \div nsq[j])], Len(mrow)),
          Len(mrow))

\* The closeness coefficient d- / (d+ + d-) of every row, kept as the two
\* squared distances.
Topsis_Score(mat, w, imp) ==
    LET n == NumCols(mat)
        nsq == Table([j \in 1..n |-> NormSq(mat, j)], n)
        prod == ProdTo(nsq, n)
        id == ideal(mat, imp)
        ai == anti_ideal(mat, imp)
    IN  Table([i \in 1..NumRows(mat) |->
                [dminus2 |-> SquaredDistance(mat[i], w, ai, nsq, prod),
                 dplus2 |-> SquaredDistance(mat[i], w, id, nsq, prod)]],
              NumRows(mat))

\* Closeness a < closeness b; a row at distance 0 from both points has
\* closeness 1/2.
ClosenessLess(a, b) ==
    LET degenerate(c) == c.dminus2 = 0 /\ c.dplus2 = 0
    IN  IF degenerate(a) /\ degenerate(b) THEN FALSE
        ELSE IF degenerate(a) THEN b.dplus2 < b.dminus2
        ELSE IF degenerate(b) THEN a.dminus2 < a.dplus2
        ELSE a.dminus2 * b.dplus2 < b.dminus2 * a.dplus2

\* before[a][b]: row a has the larger closeness (descending order).
ClosenessGreaterTable(sc) ==
    Table([a \in 1..Len(sc) |->
            Table([b \in 1..Len(sc) |-> ClosenessLess(sc[b], sc[a])], Len(sc))],
          Len(sc))

\* Ranks by closeness ascending: rank 1 to the smallest coefficient.
topsis_Ascending(df, w, imp) ==
    LET sc == Topsis_Score(df, w, imp)
        rk == rank(Table([a \in 1..Len(sc) |->
                    Table([b \in 1..Len(sc) |-> ClosenessLess(sc[a], sc[b])], Len(sc))],
                  Len(sc)))
    IN  Table([i \in 1..Len(df) |->
                [label |-> i, row |-> df[i], Topsis_Score |-> sc[i], Rank |-> rk[i]]],
              Len(df))

\* The table topsis returns: the rows in their order, the score, the rank.
topsis(df, w, imp) ==
    LET sc == Topsis_Score(df, w, imp)
        rk == rank(ClosenessGreaterTable(sc))
    IN  Table([i \in 1..Len(df) |->
                [label |-> i, row |-> df[i], Topsis_Score |-> sc[i], Rank |-> rk[i]]],
              Len(df))

---------------------------------------------------------------------------
\* DecisionPipeline: validation, weights, dispatch, comparison.

\* Matrix Validator: impact count, then impact symbols.
validate_inputs(df, imp) ==
    IF Len(imp) # NumCols(df)
    THEN [type |-> "ValueError", about |-> "InvalidDimension"]
    ELSE IF \E j \in 1..Len(imp) : imp[j] \notin {"+", "-"}
    THEN [type |-> "ValueError", about |-> "InvalidImpactSymbol"]
    ELSE NoError

\* An "ahp" pipeline run without a matrix going on as an "equal" one.
PipelineError_NoMatrixCheck(cfg, df, imp, pm) ==
    IF validate_inputs(df, imp) # NoError THEN validate_inputs(df, imp)
    ELSE IF cfg.weights = "ahp" /\ pm # <<>> /\ Malformed(pm)
    THEN [type |-> "ValueError", about |-> "MalformedPairwiseMatrix"]
    ELSE NoError

\* What run and compare_methods check before deriving weights.
PipelineError(cfg, df, imp, pm) ==
    IF validate_inputs(df, imp) # NoError THEN validate_inputs(df, imp)
    ELSE IF cfg.weights = "ahp" /\ pm = <<>>
    THEN [type |-> "ValueError", about |-> "MissingPairwiseMatrix"]
    ELSE IF cfg.weights = "ahp" /\ Malformed(pm)
    THEN [type |-> "ValueError", about |-> "MalformedPairwiseMatrix"]
    ELSE NoError

\* The weight vectors the configured deriver can produce.
derive_weights(cfg, df, pm) ==
    IF cfg.weights = "entropy" THEN entropy_weights(df)
    ELSE IF cfg.weights = "ahp" /\ pm # <<>> THEN {ahp(pm)}
    ELSE {equal_weights(NumCols(df))}

Failed(err) ==
    [result |-> <<>>, attrs |-> NoAttrs, error |-> err, printed |-> <<>>,
     weights |-> <<>>, comparison |-> <<>>]

\* The outcomes of the configured ranker for one weight vector.
Dispatch(method, df, w, imp, vn, verb) ==
    IF method = "topsis"
    THEN {[result |-> topsis(df, w, imp), attrs |-> NoAttrs, error |-> NoError,
           printed |-> <<>>, weights |-> w, comparison |-> <<>>]}
    ELSE {[result |-> out.result, attrs |-> out.attrs, error |-> out.error,
           printed |-> out.printed, weights |-> w, comparison |-> <<>>] :
            out \in vikor(df, w, imp, vn, verb)}

\* DecisionPipeline(weights, method).run(df, impacts, pairwise_matrix)
run(cfg, df, imp, pm, vn, verb) ==
    IF PipelineError(cfg, df, imp, pm) # NoError
    THEN {Failed(PipelineError(cfg, df, imp, pm))}
    ELSE UNION {Dispatch(cfg.method, df, w, imp, vn, verb) :
                    w \in derive_weights(cfg, df, pm)}

\* The difference of the two ranks, sign kept.
Rank_Difference_Signed(topsis_rank, vikor_rank) == topsis_rank - vikor_rank

Rank_Difference(topsis_rank, vikor_rank) == Abs(topsis_rank - vikor_rank)

\* The comparison of one TOPSIS table with one VIKOR table.
Comparison(t, vk) ==
    [topsis |-> t, vikor |-> vk,
     comparison |->
        Table([i \in 1..Len(t) |->
                [label |-> t[i].label,
                 TOPSIS_Rank |-> t[i].Rank,
                 VIKOR_Rank |-> vk[i].Rank,
                 Rank_Difference |-> Rank_Difference(t[i].Rank, vk[i].Rank)]],
              Len(t))]

\* DecisionPipeline(weights, method).compare_methods(df, impacts): both
\* rankers run with the same derived weights.
compare_methods(cfg, df, imp, pm, vn) ==
    IF PipelineError(cfg, df, imp, pm) # NoError
    THEN {Failed(PipelineError(cfg, df, imp, pm))}
    ELSE UNION {UNION {{[result |-> <<>>, attrs |-> NoAttrs, error |-> NoError,
                         printed |-> <<>>, weights |-> w,
                         comparison |-> Comparison(t, out.result)] :
                            out \in vikor(df, w, imp, vn, FALSE)} :
                        t \in {topsis(df, w, imp)}} :
                    w \in derive_weights(cfg, df, pm)}

---------------------------------------------------------------------------
\* The state machine.

Inputs(ms, ns, vals, ws, imps, vs) ==
    \E m \in ms, n \in ns :
        /\ data \in [1..m -> [1..n -> vals]]
        /\ weights \in {w \in [1..n -> ws] : SumTo(w, n) > 0}
        /\ impacts \in [1..n -> imps]
        /\ v \in vs

\* Nothing returned, nothing raised, nothing printed yet.
NotCalled ==
    /\ pc = "input"
    /\ result = <<>>
    /\ attrs = NoAttrs
    /\ error = NoError
    /\ printed = <<>>
    /\ comparison = <<>>

\* vikor called directly, with the caller's own weights.
NoPipeline ==
    /\ config = [weights |-> "given", method |-> "vikor"]
    /\ pairwise_matrix = <<>>

Init ==
    /\ Inputs(1..MaxM, 1..MaxN, 0..MaxVal, 1..MaxWeight, {"+", "-"}, 0..VDen)
    /\ verbose = FALSE
    /\ NoPipeline
    /\ NotCalled

\* One call result = vikor(data, weights, impacts, v, verbose): it returns,
\* or it raises and the caller holds no table.
Vikor ==
    /\ pc = "input"
    /\ \E out \in vikor(data, weights, impacts, v, verbose) :
          /\ result' = out.result
          /\ attrs' = out.attrs
          /\ error' = out.error
          /\ printed' = out.printed
          /\ pc' = IF out.error = NoError THEN "done" ELSE "raised"
    /\ UNCHANGED <<data, weights, impacts, v, verbose,
                   config, pairwise_matrix, comparison>>

Next == Vikor

Spec == Init /\ [][Next]_vars

\* Four alternatives on a finer value grid: equal weights, benefit criteria,
\* v = 1 / VDen.
InitWide ==
    /\ Inputs({WideM}, {MaxN}, 0..WideVal, {MaxWeight}, {"+"}, {1})
    /\ verbose = FALSE
    /\ NoPipeline
    /\ NotCalled

SpecWide == InitWide /\ [][Next]_vars

\* Calls of every shape: weights and impacts of any length up to MaxN,
\* impact symbols outside '+' and '-', verbose on and off.
AnyInputs(ms, ns, vals, ws, imps, vs) ==
    \E m \in ms, n \in ns, wl \in ns, il \in ns :
        /\ data \in [1..m -> [1..n -> vals]]
        /\ weights \in [1..wl -> ws]
        /\ impacts \in [1..il -> imps]
        /\ v \in vs

InitAny ==
    /\ AnyInputs(1..MaxM, 1..MaxN, 0..MaxVal, 1..MaxWeight, {"+", "-", "x"}, {1})
    /\ verbose \in BOOLEAN
    /\ NoPipeline
    /\ NotCalled

SpecAny == InitAny /\ [][Next]_vars

\* The consistent pairwise matrix of the priorities r: cell [j][k] is
\* r[j] / r[k].
PairwiseFrom(r) ==
    Table([j \in 1..Len(r) |->
            Table([k \in 1..Len(r) |-> Reduce([num |-> r[j], den |-> r[k]])], Len(r))],
          Len(r))

\* A matrix with zero off-diagonal entries.
PairwiseZeroed(n) ==
    Table([j \in 1..n |->
            Table([k \in 1..n |-> [num |-> IF j = k THEN 1 ELSE 0, den |-> 1]], n)], n)

\* A pipeline of any configuration, called with impacts of any length and
\* symbol; an "ahp" pipeline is called with or without a pairwise matrix.
InitPipeline ==
    /\ config \in [weights : {"equal", "entropy", "ahp"}, method : {"topsis", "vikor"}]
    /\ \E m \in 1..MaxM, n \in 1..MaxN, il \in 1..MaxN :
        /\ data \in [1..m -> [1..n -> 0..MaxVal]]
        /\ impacts \in [1..il -> {"+", "-", "x"}]
        /\ pairwise_matrix \in
              IF config.weights = "ahp"
              THEN {<<>>, PairwiseZeroed(n)}
                     \cup {PairwiseFrom(r) : r \in [1..n -> 1..MaxWeight]}
              ELSE {<<>>}
    /\ weights = <<>>
    /\ v = 1
    /\ verbose = FALSE
    /\ NotCalled

\* One call result = pipeline.run(data, impacts, pairwise_matrix).
Run ==
    /\ pc = "input"
    /\ \E out \in run(config, data, impacts, pairwise_matrix, v, verbose) :
          /\ result' = out.result
          /\ attrs' = out.attrs
          /\ error' = out.error
          /\ printed' = out.printed
          /\ weights' = out.weights
          /\ pc' = IF out.error = NoError THEN "done" ELSE "raised"
    /\ UNCHANGED <<data, impacts, v, verbose, config, pairwise_matrix, comparison>>

\* One call comparison = pipeline.compare_methods(data, impacts).
CompareMethods ==
    /\ pc = "input"
    /\ \E out \in compare_methods(config, data, impacts, pairwise_matrix, v) :
          /\ comparison' = out.comparison
          /\ error' = out.error
          /\ weights' = out.weights
          /\ pc' = IF out.error = NoError THEN "compared" ELSE "raised"
    /\ UNCHANGED <<data, impacts, v, verbose, config, pairwise_matrix,
                   result, attrs, printed>>

NextPipeline == Run \/ CompareMethods

SpecPipeline == InitPipeline /\ [][NextPipeline]_vars

---------------------------------------------------------------------------
\* Vocabulary of the properties, read off the returned table.

Done == pc = "done"

Rows == 1..Len(data)

Flagged == {i \in Rows : result[i].Is_Compromise}

\* Rows no other row has a smaller Q than.
QBest == {i \in Rows : \A k \in Rows : ~QLess(result[k].Q, result[i].Q)}

\* Q(i) - Q(k) >= DQ, with DQ = 1 / (m - 1).
GapAtLeastDQ(i, k) == ~QDiffLess(result[i].Q, result[k].Q, 1, Len(data) - 1)

SmallerCount(less, i) == Cardinality({k \in Rows : less[k][i]})

ResultQLess == [a \in Rows |-> [b \in Rows |-> QLess(result[a].Q, result[b].Q)]]

ResultSLess == [a \in Rows |-> [b \in Rows |-> result[a].S < result[b].S]]

ResultRLess == [a \in Rows |-> [b \in Rows |-> result[a].R < result[b].R]]

---------------------------------------------------------------------------
\* C1: for m > 1 the reported C1_satisfied is true exactly when Q of the
\* second-ranked alternative minus Q of the best-ranked one is at least DQ,
\* alternatives ordered by ascending Q, and the reported DQ is 1 / (m - 1).
C1_AcceptableAdvantage ==
    (Done /\ Len(data) > 1) =>
        /\ attrs.DQ = [num |-> 1, den |-> Len(data) - 1]
        /\ \A b \in QBest :
             \A s \in Rows \ {b} :
                (\A k \in Rows \ {b} : ~QLess(result[k].Q, result[s].Q))
                    => (attrs.C1_satisfied <=> GapAtLeastDQ(s, b))

\* Both outcomes of C1 occur for three alternatives.
C1_Witness ==
    /\ Done /\ Len(data) = MaxM /\ attrs.C1_satisfied
    /\ \E i \in Rows : result[i].Rank = 2

C1_WitnessFails ==
    /\ Done /\ Len(data) = MaxM /\ ~attrs.C1_satisfied
    /\ \E i \in Rows : result[i].Rank = 2

---------------------------------------------------------------------------
\* C2: the reported C2_satisfied is true exactly when the alternative
\* best-ranked by Q has S_Rank = 1 or R_Rank = 1, ties for the best S or the
\* best R included.  Stated where the best alternative by Q is unique.
C2_AcceptableStability ==
    Done =>
        \A b \in Rows :
            QBest = {b} =>
                (attrs.C2_satisfied <=>
                    (result[b].S_Rank = 1 \/ result[b].R_Rank = 1))

\* C3: when C1 and C2 are both found satisfied, exactly one alternative is
\* flagged Is_Compromise, and it is the one with Rank = 1.
C3_SingleCompromise ==
    (Done /\ attrs.C1_satisfied /\ attrs.C2_satisfied) =>
        /\ Cardinality(Flagged) = 1
        /\ Flagged = {i \in Rows : result[i].Rank = 1}

C3_Witness ==
    /\ Done /\ attrs.C1_satisfied /\ attrs.C2_satisfied
    /\ Len(data) = MaxM
    /\ \E i, k \in Rows : result[i].Rank = 2 /\ result[k].Rank = MaxM

\* C4: when C1 is found not satisfied, whether or not C2 holds, the flagged
\* alternatives are exactly those whose Q is less than DQ above the minimum Q.
C4_MultipleCompromise ==
    (Done /\ ~attrs.C1_satisfied) =>
        Flagged = {i \in Rows : \A b \in QBest : ~GapAtLeastDQ(i, b)}

\* Some alternative is inside the DQ band next to the best and some is not.
C4_Witness ==
    /\ Done /\ ~attrs.C1_satisfied
    /\ Cardinality(Flagged) = 2
    /\ Len(data) = MaxM

C6_MinimumRank ==
    Done =>
        /\ \A i \in Rows :
            /\ result[i].Rank = result[i].Q_Rank
            /\ result[i].Q_Rank = 1 + SmallerCount(ResultQLess, i)
            /\ result[i].S_Rank = 1 + SmallerCount(ResultSLess, i)
            /\ result[i].R_Rank = 1 + SmallerCount(ResultRLess, i)
        /\ \E i \in Rows : result[i].Rank = 1

\* Two alternatives tie and the next distinct Q skips the tied ordinal.
C6_Witness ==
    /\ Done /\ Len(data) = MaxM
    /\ Cardinality({i \in Rows : result[i].Rank = 1}) = 2
    /\ \E i \in Rows : result[i].Rank = 3

\* C7: with v = 0 Rank equals S_Rank for every alternative, and with v = 1
\* Rank equals R_Rank for every alternative.
C7_StrategyExtremes ==
    Done =>
        /\ v = 0 => \A i \in Rows : result[i].Rank = result[i].S_Rank
        /\ v = VDen => \A i \in Rows : result[i].Rank = result[i].R_Rank

C9_OriginalOrder ==
    /\ [](Done =>
            /\ Len(result) = Len(data)
            /\ \A i \in Rows : result[i].label = i /\ result[i].row = data[i])
    /\ [][data' = data]_vars

\* The ranks are not already in table order, so a sort would move rows.
C9_Witness ==
    /\ Done /\ Len(data) = MaxM
    /\ result[1].Rank = MaxM /\ result[MaxM].Rank = 1

---------------------------------------------------------------------------
\* C10: for every permutation p of the alternatives, vikor on the permuted
\* table gives the alternative in row i the Rank, S, R and Q that it gets in
\* its row p[i] of the unpermuted table.
Permuted(mat, p) == [i \in 1..Len(mat) |-> mat[p[i]]]

C10_PermutationEquivariance ==
    Done =>
        \A p \in Permutations(Rows) :
            \A sc \in {Scores(Permuted(data, p), weights, impacts, v)} :
                \A i \in Rows :
                    /\ sc.Q_Rank[i] = result[p[i]].Rank
                    /\ sc.S[i] = result[p[i]].S
                    /\ sc.R[i] = result[p[i]].R
                    /\ sc.Q[i] = result[p[i]].Q

\* Three different rows, two of them tied on Q, the third ranked after them.
C10_Witness ==
    /\ Done /\ Len(data) = MaxM
    /\ Cardinality({data[i] : i \in Rows}) = MaxM
    /\ result[1].Rank = 3 /\ result[2].Rank = 1 /\ result[3].Rank = 1

---------------------------------------------------------------------------
---------------------------------------------------------------------------
\* C12: vikor rejects an invalid input before computing anything: a call
\* whose number of weights or number of impacts differs from the number of
\* criteria raises a dimension error, also when an impact symbol is invalid
\* as well; a call with matching counts and an impact other than '+' or '-'
\* raises the invalid-impact error; in both cases no table, no attrs and no
\* output is produced.
BadSymbol == \E j \in 1..Len(impacts) : impacts[j] \notin {"+", "-"}

WrongCount == Len(weights) # NumCols(data) \/ Len(impacts) # NumCols(data)

NothingProduced == result = <<>> /\ attrs = NoAttrs /\ printed = <<>>

C12_RejectsInvalidInput ==
    (pc # "input") =>
        /\ WrongCount =>
              /\ pc = "raised" /\ NothingProduced
              /\ error.type = "ValueError"
              /\ error.about = IF Len(weights) # NumCols(data)
                               THEN "Number of weights" ELSE "Number of impacts"
        /\ (~WrongCount /\ BadSymbol) =>
              /\ pc = "raised" /\ NothingProduced
              /\ error = [type |-> "ValueError",
                          about |-> "Impacts must be '+' or '-' only"]

\* A call with one impact too few, that one not a valid symbol.
C12_Witness ==
    /\ pc = "raised" /\ BadSymbol
    /\ Len(weights) = NumCols(data) /\ Len(impacts) # NumCols(data)
    /\ error.about = "Number of impacts"

---------------------------------------------------------------------------
\* C17: a criterion whose values are the same for all alternatives, benefit
\* or cost, has a non-zero range denominator, contributes the weighted
\* distance 0 to every alternative, and leaves S, R, Q and the three ranks
\* what they are when its contribution is left out of the sum and the
\* maximum.
ZeroRange(j) == \A i \in Rows : data[i][j] = data[1][j]

\* The rows of weighted distances without the entries of criterion j.
WithoutCriterion(wd, j) ==
    Table([i \in 1..Len(wd) |->
            SubSeq(wd[i], 1, j - 1) \o SubSeq(wd[i], j + 1, Len(wd[i]))], Len(wd))

SameScores(Sv, Rv, Qv) ==
    \A i \in Rows :
        /\ result[i].S = Sv[i] /\ result[i].R = Rv[i] /\ result[i].Q = Qv[i]
        /\ result[i].S_Rank = rank(IntLess(Sv))[i]
        /\ result[i].R_Rank = rank(IntLess(Rv))[i]
        /\ result[i].Q_Rank = rank(QLessTable(Qv))[i]
        /\ result[i].Rank = rank(QLessTable(Qv))[i]

C17_ZeroRangeCriterion ==
    Done =>
        \A j \in 1..NumCols(data) :
            ZeroRange(j) =>
                \E wd \in {Distances(data, weights, impacts)} :
                    /\ RangeDen(ideal(data, impacts), anti_ideal(data, impacts))[j] # 0
                    /\ \A i \in Rows : wd[i][j] = 0
                    /\ NumCols(data) > 1 =>
                          \E rest \in {WithoutCriterion(wd, j)} :
                            \E Sv \in {S(rest)}, Rv \in {R(rest)} :
                              \E Qv \in {Q(Sv, Rv, CommonDen(data, weights, impacts), v)} :
                                SameScores(Sv, Rv, Qv)
                    /\ NumCols(data) = 1 =>
                          \A i \in Rows : result[i].S = 0 /\ result[i].R = 0

\* Three alternatives, a constant cost criterion beside a criterion that
\* tells them apart.
C17_Witness ==
    /\ Done /\ Len(data) = MaxM /\ NumCols(data) = MaxN
    /\ ZeroRange(1) /\ impacts[1] = "-" /\ data[1][1] > 0
    /\ ~ZeroRange(MaxN)
    /\ \E i \in Rows : result[i].Rank = MaxM

---------------------------------------------------------------------------
\* C18: in every result attrs.compromise_set lists, each once, exactly the
\* labels of the rows whose Is_Compromise is true, whichever of the three
\* branches produced it, and the number compromise_status states is the
\* number of flagged rows (one, for the single compromise solution).
SetOf(seq) == {seq[p] : p \in 1..Len(seq)}

C18_CompromiseSetMatchesFlags ==
    Done =>
        /\ Cardinality(SetOf(attrs.compromise_set)) = Len(attrs.compromise_set)
        /\ SetOf(attrs.compromise_set) = {result[i].label : i \in Flagged}
        /\ IF attrs.compromise_status.count = <<>>
           THEN Cardinality(Flagged) = 1
           ELSE attrs.compromise_status.count[1] = Cardinality(Flagged)

\* The third branch with the best by Q, by S and by R all different.
C18_Witness ==
    /\ Done /\ attrs.C1_satisfied /\ ~attrs.C2_satisfied
    /\ Len(attrs.compromise_set) = 3
    /\ attrs.compromise_status.count = <<3>>

---------------------------------------------------------------------------
\* C19: for a single alternative vikor returns S = R = Q = 0 and Rank = 1,
\* DQ = 1, C1_satisfied and C2_satisfied true, and the alternative is the
\* single compromise solution.
QIsZero(q) ==
    /\ ~QLess(q, [q EXCEPT !.sn = 0, !.rn = 0])
    /\ ~QLess([q EXCEPT !.sn = 0, !.rn = 0], q)

C19_Singleton ==
    (pc # "input" /\ Len(data) = 1) =>
        /\ Done /\ Len(result) = 1
        /\ result[1].S = 0 /\ result[1].R = 0 /\ QIsZero(result[1].Q)
        /\ result[1].Rank = 1 /\ result[1].Q_Rank = 1
        /\ attrs.DQ = [num |-> 1, den |-> 1]
        /\ attrs.C1_satisfied /\ attrs.C2_satisfied
        /\ result[1].Is_Compromise
        /\ attrs.compromise_set = <<result[1].label>>
        /\ attrs.compromise_status =
              [text |-> "Single compromise solution (C1 and C2 satisfied)",
               count |-> <<>>]

\* One alternative scored on a benefit and a cost criterion.
C19_Witness ==
    /\ Done /\ Len(data) = 1 /\ NumCols(data) = MaxN
    /\ impacts[1] = "+" /\ impacts[MaxN] = "-"
    /\ data[1][1] > 0 /\ data[1][MaxN] > 0

---------------------------------------------------------------------------
\* C20: with exactly two alternatives (DQ = 1) the gap between the two Q
\* values is strictly below 1, so C1 is never found satisfied, the status
\* is never the single compromise solution, and both alternatives are
\* flagged.
C20_TwoAlternatives ==
    (Done /\ Len(data) = 2) =>
        /\ attrs.DQ = [num |-> 1, den |-> 1]
        /\ QDiffLess(result[1].Q, result[2].Q, 1, 1)
        /\ QDiffLess(result[2].Q, result[1].Q, 1, 1)
        /\ ~attrs.C1_satisfied
        /\ attrs.compromise_status.text
              # "Single compromise solution (C1 and C2 satisfied)"
        /\ result[1].Is_Compromise /\ result[2].Is_Compromise

\* Two alternatives, the first best by S and by R on both criteria: the
\* largest gap two Q values can have.
C20_Witness ==
    /\ Done /\ Len(data) = 2 /\ NumCols(data) = MaxN
    /\ result[1].S_Rank = 1 /\ result[1].R_Rank = 1
    /\ result[2].S_Rank = 2 /\ result[2].R_Rank = 2
    /\ result[2].Rank = 2
    /\ \A j \in 1..MaxN : data[1][j] # data[2][j]
    /\ result[1].Is_Compromise /\ result[2].Is_Compromise

---------------------------------------------------------------------------
\* C13: DecisionPipeline.run fails, returning nothing: with
\* MissingPairwiseMatrix when the weighting strategy is "ahp" and no
\* pairwise matrix is supplied, with InvalidDimension when the number of
\* impacts differs from the number of criteria, with InvalidImpactSymbol
\* when an impact is neither '+' nor '-'.  Where several of these hold at
\* once the error is one of those that hold.
MatrixMissing == config.weights = "ahp" /\ pairwise_matrix = <<>>

ExpectedErrors ==
    (IF MatrixMissing THEN {"MissingPairwiseMatrix"} ELSE {})
        \cup (IF Len(impacts) # NumCols(data) THEN {"InvalidDimension"} ELSE {})
        \cup (IF BadSymbol THEN {"InvalidImpactSymbol"} ELSE {})

C13_PipelineRejects ==
    (pc # "input" /\ ExpectedErrors # {}) =>
        /\ pc = "raised"
        /\ NothingProduced /\ comparison = <<>>
        /\ error.type = "ValueError"
        /\ error.about \in ExpectedErrors

\* Each of the three errors, raised where only its own cause is present.
C13_Witness ==
    /\ pc = "raised" /\ ExpectedErrors = {"MissingPairwiseMatrix"}
    /\ error.about = "MissingPairwiseMatrix"
    /\ config.method = "topsis" /\ Len(data) = MaxM

C13_WitnessDimension ==
    /\ pc = "raised" /\ ExpectedErrors = {"InvalidDimension"}
    /\ error.about = "InvalidDimension"

C13_WitnessSymbol ==
    /\ pc = "raised" /\ ExpectedErrors = {"InvalidImpactSymbol"}
    /\ error.about = "InvalidImpactSymbol"

---------------------------------------------------------------------------
\* C14: compare_methods on a valid table returns the TOPSIS result, the
\* VIKOR result (both for the same derived weights) and a comparison table
\* with one row per alternative whose Rank_Difference is the absolute
\* difference of that alternative's TOPSIS and VIKOR ranks: a non-negative
\* integer, and all of them (hence their sum and mean) are 0 exactly when
\* the two methods agree on every rank.
Compared == pc = "compared"

RankDifferences ==
    [i \in 1..Len(comparison.comparison) |-> comparison.comparison[i].Rank_Difference]

C14_RankDifference ==
    Compared =>
        /\ comparison.topsis = topsis(data, weights, impacts)
        /\ \E out \in vikor(data, weights, impacts, v, FALSE) :
              comparison.vikor = out.result
        /\ Len(comparison.comparison) = Len(data)
        /\ \A i \in Rows :
              LET d == comparison.comparison[i].Rank_Difference
                  t == comparison.topsis[i].Rank
                  k == comparison.vikor[i].Rank
              IN  /\ comparison.comparison[i].label = i
                  /\ d \in Nat
                  /\ d = t - k \/ d = k - t
        /\ (SumTo(RankDifferences, Len(data)) = 0)
              <=> (\A i \in Rows : comparison.topsis[i].Rank = comparison.vikor[i].Rank)

\* The two methods disagreeing on three alternatives, TOPSIS ranking an
\* alternative below VIKOR and another above.
C14_Witness ==
    /\ Compared /\ Len(data) = MaxM
    /\ \E i \in Rows : comparison.topsis[i].Rank < comparison.vikor[i].Rank
    /\ \E i \in Rows : comparison.topsis[i].Rank > comparison.vikor[i].Rank

\* The two methods agreeing on three distinct ranks.
C14_WitnessAgree ==
    /\ Compared /\ Len(data) = MaxM
    /\ \A i \in Rows : comparison.comparison[i].Rank_Difference = 0
    /\ \E i \in Rows : comparison.topsis[i].Rank = MaxM
    /\ \E i \in Rows : comparison.topsis[i].Rank = 2

---------------------------------------------------------------------------
\* C15: TOPSIS ranks by closeness coefficient descending with the
\* minimum-rank tie method: the result has exactly m rows, the Rank of an
\* alternative is 1 plus the number of alternatives with a strictly larger
\* coefficient (two tied for 1st get 1, 1 and the next gets 3), rank 1 goes
\* to exactly the alternatives with the maximum coefficient, and the
\* smallest Rank is 1.
RankedByTopsis == pc = "done" /\ config.method = "topsis"

LargerCloseness(i) ==
    {k \in Rows : ClosenessLess(result[i].Topsis_Score, result[k].Topsis_Score)}

C15_TopsisRanks ==
    RankedByTopsis =>
        /\ Len(result) = Len(data)
        /\ \A i \in Rows : result[i].Rank = 1 + Cardinality(LargerCloseness(i))
        /\ \A i \in Rows : (result[i].Rank = 1) <=> (LargerCloseness(i) = {})
        /\ \E i \in Rows : result[i].Rank = 1
        /\ \A i \in Rows : result[i].Rank >= 1

\* Two alternatives tied for the best closeness and a third behind them:
\* ranks 1, 1, 3.
C15_Witness ==
    /\ RankedByTopsis /\ Len(data) = MaxM
    /\ Cardinality({i \in Rows : result[i].Rank = 1}) = 2
    /\ \E i \in Rows : result[i].Rank = MaxM
    /\ data[1] # data[2] /\ data[2] # data[MaxM] /\ data[1] # data[MaxM]

---------------------------------------------------------------------------
\* C21: with non-negative weights summing to 1 and v in [0, 1], every
\* weighted distance lies between 0 and its criterion's weight, so that
\* every alternative has 0 <= R <= S <= 1 and 0 <= Q <= 1, for benefit and
\* cost criteria alike.  S, R and the distances are numerators over
\* CommonDen; the weight of criterion j over CommonDen is
\* weights[j] * RangeProd.
QZero(q) == [q EXCEPT !.sn = 0, !.rn = 0]

C21_Bounds ==
    Done =>
        \E cden \in {CommonDen(data, weights, impacts)},
           wd \in {Distances(data, weights, impacts)} :
            \A i \in Rows :
                /\ \A j \in 1..NumCols(data) :
                      /\ 0 <= wd[i][j]
                      /\ wd[i][j] * WeightDen(weights) <= weights[j] * cden
                /\ 0 <= result[i].R
                /\ result[i].R <= result[i].S
                /\ result[i].S <= cden
                /\ ~QLess(result[i].Q, QZero(result[i].Q))
                /\ ~QDiffLess(QZero(result[i].Q), result[i].Q, -1, 1)

====
